---- MODULE Spec2Model ----
(***************************************************************************)
(* Model of the malformed-JSON ingestion scripts:                          *)
(*   "db"    sendMoviesToSurrealDB          (src/src/json-to-db.ts)        *)
(*   "surql" convertMoviesToOptimizedSurql  (src/unnamed/part_000)         *)
(*   "fix"   fixJsonFile                    (src/src/convert.ts)           *)
(* of their record formatters (formatMovieForDB, formatMovieObject) and of *)
(* the reference-data fetcher (src/src/collections.ts).                    *)
(* Text is a sequence of one-character strings.  The input arrives line by *)
(* line from readline; every line is scanned one character per step.       *)
(***************************************************************************)
EXTENDS Integers, Sequences, FiniteSets, TLC

\* ------------------------------------------------------------------ bounds
MaxLines == 3
MaxBatchSize == 2
MaxFaults == 2
\* longest genres list of a movie
MaxGenres == 2
\* failed fetches in one run of collections.ts
MaxFetchFaults == 1

\* ------------------------------------------------------- input vocabulary
\* {"a":1}
ObjPlain == <<"{", "\"", "a", "\"", ":", "1", "}">>
\* {"a":"\"}"}   a string value holding an escaped quote and a brace
ObjEsc == <<"{", "\"", "a", "\"", ":", "\"", "\\", "\"", "}", "\"", "}">>
\* {a}           brace-balanced, not JSON
ObjBad == <<"{", "a", "}">>
\* {"a":         an object left open at the end of the line
ObjHead == <<"{", "\"", "a", "\"", ":">>
\* 1}            the rest of an object opened on an earlier line
ObjTail == <<"1", "}">>
\* {} {}         two objects sharing a line
ObjTwo == <<"{", "}", " ", "{", "}">>

Lines == {ObjPlain, ObjEsc, ObjBad, ObjHead, ObjTail, ObjTwo}

Programs == {"db", "surql", "fix"}

\* --------------------------------------------------------------- JSON.parse
\* Positions are 1-based.  A parser returns the position after what it read,
\* 0 on a character that cannot continue the text (a syntax error), and -1
\* when the text ends inside a value (incomplete).

IsWs(c) == c \in {" ", "\n"}

RECURSIVE SkipWs(_, _)
SkipWs(s, p) == IF p <= Len(s) /\ IsWs(s[p]) THEN SkipWs(s, p + 1) ELSE p

\* p is the position after the opening quote
RECURSIVE ParseStringBody(_, _)
ParseStringBody(s, p) ==
    IF p > Len(s) THEN -1
    ELSE IF s[p] = "\"" THEN p + 1
    ELSE IF s[p] = "\\" THEN
        IF p + 1 > Len(s) THEN -1
        ELSE IF s[p + 1] \in {"\"", "\\"} THEN ParseStringBody(s, p + 2)
        ELSE 0
    ELSE IF s[p] = "\n" THEN 0
    ELSE ParseStringBody(s, p + 1)

RECURSIVE ParseNumber(_, _)
ParseNumber(s, p) == IF p <= Len(s) /\ s[p] = "1" THEN ParseNumber(s, p + 1) ELSE p

RECURSIVE ParseValue(_, _)
RECURSIVE ParseMembers(_, _)

\* p is the position of the opening quote of a member's key
ParseMembers(s, p) ==
    LET k == ParseStringBody(s, p + 1) IN
    IF k <= 0 THEN k ELSE
    LET c == SkipWs(s, k) IN
    IF c > Len(s) THEN -1
    ELSE IF s[c] # ":" THEN 0
    ELSE
    LET v == ParseValue(s, SkipWs(s, c + 1)) IN
    IF v <= 0 THEN v ELSE
    LET e == SkipWs(s, v) IN
    IF e > Len(s) THEN -1
    ELSE IF s[e] = "}" THEN e + 1
    ELSE IF s[e] = "," THEN
        LET n == SkipWs(s, e + 1) IN
        IF n > Len(s) THEN -1
        ELSE IF s[n] = "\"" THEN ParseMembers(s, n)
        ELSE 0
    ELSE 0

\* p is the position of the opening brace
ParseObject(s, p) ==
    LET q == SkipWs(s, p + 1) IN
    IF q > Len(s) THEN -1
    ELSE IF s[q] = "}" THEN q + 1
    ELSE IF s[q] = "\"" THEN ParseMembers(s, q)
    ELSE 0

ParseValue(s, p) ==
    IF p > Len(s) THEN -1
    ELSE IF s[p] = "{" THEN ParseObject(s, p)
    ELSE IF s[p] = "\"" THEN ParseStringBody(s, p + 1)
    ELSE IF s[p] = "1" THEN ParseNumber(s, p)
    ELSE 0

\* JSON.parse(text) returns (TRUE) or throws (FALSE)
JSONParseOk(text) ==
    LET v == ParseValue(text, SkipWs(text, 1)) IN
    v > 0 /\ SkipWs(text, v) = Len(text) + 1

\* String.prototype.trim
RECURSIVE TrimEnd(_)
TrimEnd(s) == IF Len(s) > 0 /\ IsWs(s[Len(s)]) THEN TrimEnd(SubSeq(s, 1, Len(s) - 1)) ELSE s

Trim(s) == LET t == TrimEnd(s) IN SubSeq(t, SkipWs(t, 1), Len(t))

\* ------------------------------------------------------------------ scanner
\* ScanChar without the escapeNext handling: a backslash is an ordinary
\* character and the character after it is tracked like any other.
ScanCharNoEscape(st, ch) ==
    IF ch = "\"" THEN
        [openBraces |-> st.openBraces, inQuotes |-> ~st.inQuotes,
         escapeNext |-> FALSE, closed |-> FALSE]
    ELSE IF ~st.inQuotes /\ ch = "{" THEN
        [openBraces |-> st.openBraces + 1, inQuotes |-> st.inQuotes,
         escapeNext |-> FALSE, closed |-> FALSE]
    ELSE IF ~st.inQuotes /\ ch = "}" THEN
        [openBraces |-> st.openBraces - 1, inQuotes |-> st.inQuotes,
         escapeNext |-> FALSE, closed |-> (st.openBraces - 1 = 0)]
    ELSE
        [openBraces |-> st.openBraces, inQuotes |-> st.inQuotes,
         escapeNext |-> FALSE, closed |-> FALSE]

\* ScanChar with the completion test written openBraces <= 0
ScanCharClosedBelowZero(st, ch) ==
    IF st.escapeNext THEN
        [openBraces |-> st.openBraces, inQuotes |-> st.inQuotes,
         escapeNext |-> FALSE, closed |-> FALSE]
    ELSE IF ch = "\\" THEN
        [openBraces |-> st.openBraces, inQuotes |-> st.inQuotes,
         escapeNext |-> TRUE, closed |-> FALSE]
    ELSE IF ch = "\"" THEN
        [openBraces |-> st.openBraces, inQuotes |-> ~st.inQuotes,
         escapeNext |-> FALSE, closed |-> FALSE]
    ELSE IF ~st.inQuotes /\ ch = "{" THEN
        [openBraces |-> st.openBraces + 1, inQuotes |-> st.inQuotes,
         escapeNext |-> FALSE, closed |-> FALSE]
    ELSE IF ~st.inQuotes /\ ch = "}" THEN
        [openBraces |-> st.openBraces - 1, inQuotes |-> st.inQuotes,
         escapeNext |-> FALSE, closed |-> (st.openBraces - 1 <= 0)]
    ELSE
        [openBraces |-> st.openBraces, inQuotes |-> st.inQuotes,
         escapeNext |-> FALSE, closed |-> FALSE]

\* One character of the brace/quote/escape tracker.  st holds openBraces,
\* inQuotes and escapeNext; closed tells that the character was a closing
\* brace outside quotes that brought openBraces to exactly 0.
ScanChar(st, ch) ==
    IF st.escapeNext THEN
        [openBraces |-> st.openBraces, inQuotes |-> st.inQuotes,
         escapeNext |-> FALSE, closed |-> FALSE]
    ELSE IF ch = "\\" THEN
        [openBraces |-> st.openBraces, inQuotes |-> st.inQuotes,
         escapeNext |-> TRUE, closed |-> FALSE]
    ELSE IF ch = "\"" THEN
        [openBraces |-> st.openBraces, inQuotes |-> ~st.inQuotes,
         escapeNext |-> FALSE, closed |-> FALSE]
    ELSE IF ~st.inQuotes /\ ch = "{" THEN
        [openBraces |-> st.openBraces + 1, inQuotes |-> st.inQuotes,
         escapeNext |-> FALSE, closed |-> FALSE]
    ELSE IF ~st.inQuotes /\ ch = "}" THEN
        [openBraces |-> st.openBraces - 1, inQuotes |-> st.inQuotes,
         escapeNext |-> FALSE, closed |-> (st.openBraces - 1 = 0)]
    ELSE
        [openBraces |-> st.openBraces, inQuotes |-> st.inQuotes,
         escapeNext |-> FALSE, closed |-> FALSE]

\* the batch test written with > instead of >=
BatchFullStrict(batch, size) == Len(batch) > size

\* if (currentBatch.length >= batchSize)
BatchFull(batch, size) == Len(batch) >= size

\* the final-batch test written with > 1 instead of > 0
FlushNeededOffByOne(batch) == Len(batch) > 1

\* the final batch dispatched without the emptiness test
FlushAlways(batch) == TRUE

\* if (currentBatch.length > 0)
FlushNeeded(batch) == Len(batch) > 0

\* the catch block leaving objectBuffer as it is
BufferKeptAfterDecodeError(buf) == buf

\* catch (err) { ...; objectBuffer = ""; }
BufferAfterDecodeError(buf) == <<>>

\* sendBatchToSurrealDB called without await: the loop goes on scanning
LoopSendPcNoAwait == "scan"

\* await sendBatchToSurrealDB(db, currentBatch) inside the read loop: the
\* loop is suspended until the call has returned or thrown
LoopSendPc == "send"

\* the batch comment written with the 0-based batch number
BatchLabelZeroBased(batchNumber) == batchNumber

\* writeBatchToFile: `-- Batch ${ batchNumber + 1 }`
BatchLabel(batchNumber) == batchNumber + 1


\* ------------------------------------------------------ record formatting
\* An optional field is <<>> when absent and <<v>> when present; null (and
\* the NULL literal of the statement emitter) is <<>> as well.
Numerics == {<<>>, <<0>>, <<7>>}

LanguageCodes == {<<>>, <<"">>, <<"fr">>}

GenreIds == {18, 35}

SeqsUpTo(S, n) == UNION {[1..k -> S] : k \in 0..n}

GenreLists == {<<>>} \cup {<<l>> : l \in SeqsUpTo(GenreIds, MaxGenres)}

CollectionIds == {<<>>, <<10>>}

Movies ==
    [budget : Numerics, revenue : Numerics, runtime : Numerics,
     vote_average : Numerics, original_language : LanguageCodes,
     genres : GenreLists, belongs_to_collection : CollectionIds]

\* `kind:${ id }`
Ref(kind, id) == [kind |-> kind, id |-> id]

\* movie.budget || 0
OrZero(field) == IF field = <<>> \/ field[1] = 0 THEN 0 ELSE field[1]

\* a formatter falling back to language:0
DefaultLanguageSentinel == "0"

\* the fallback of movie.original_language || "en"
DefaultLanguage == "en"

LanguageRef(field) ==
    Ref("language", IF field = <<>> \/ field[1] = "" THEN DefaultLanguage ELSE field[1])

\* a formatter mapping the genres without the fallback
GenreRefsNoSentinel(field) ==
    IF field = <<>> THEN <<>>
    ELSE [k \in 1..Len(field[1]) |-> Ref("genre", ToString(field[1][k]))]

\* movie.genres && movie.genres.length > 0 ? movie.genres.map(...) : ["genre:0"]
GenreRefs(field) ==
    IF field # <<>> /\ Len(field[1]) > 0
    THEN [k \in 1..Len(field[1]) |-> Ref("genre", ToString(field[1][k]))]
    ELSE <<Ref("genre", "0")>>

\* movie.belongs_to_collection ? `collection:${ id }` : null
CollectionRef(field) ==
    IF field # <<>> THEN <<Ref("collection", ToString(field[1]))>> ELSE <<>>

formatMovieForDB(m) ==
    [budget |-> OrZero(m.budget),
     revenue |-> OrZero(m.revenue),
     runtime |-> OrZero(m.runtime),
     vote_average |-> OrZero(m.vote_average),
     language |-> LanguageRef(m.original_language),
     genre |-> GenreRefs(m.genres),
     collection |-> CollectionRef(m.belongs_to_collection)]

\* the values formatMovieObject interpolates into the object text
formatMovieObject(m) ==
    [budget |-> OrZero(m.budget),
     revenue |-> OrZero(m.revenue),
     runtime |-> OrZero(m.runtime),
     vote_average |-> OrZero(m.vote_average),
     language |-> LanguageRef(m.original_language),
     genre |-> GenreRefs(m.genres),
     collection |-> CollectionRef(m.belongs_to_collection)]

\* ------------------------------------------------- collections.ts helpers
\* const batchSize = 40
FetchBatchSize == 40

\* collections.length: none, one, and around one and two full windows
FetchSizes == {0, 1, 39, 40, 41, 80, 81}

Min(a, b) == IF a < b THEN a ELSE b

Range(f) == {f[x] : x \in DOMAIN f}

\* collections.slice(i, i + batchSize), i 0-based, as 1-based positions
Slice(list, from, to) == SubSeq(list, from + 1, Min(to, Len(list)))

\* a loop that also waits after its last window
DelayNeededInclusive(idx, n) == idx + FetchBatchSize <= n

\* if (i + batchSize < collections.length)
DelayNeeded(idx, n) == idx + FetchBatchSize < n

\* a loop that starts a new batch whatever the outcome of the send
BatchDroppedAfterSend(ok, batch) == <<>>

\* await sendBatchToSurrealDB(db, currentBatch); currentBatch = [];
\* the assignment is skipped when the call throws
BatchAfterSend(ok, batch) == IF ok THEN <<>> ELSE batch

\* a script without process.exit(0): the outer for takes its next item
AfterExitNextItem == "outer"

\* process.exit(0) ends the run inside the first pass of the outer for
AfterExit == "end"

\* an error path that leaves without the finally block
AfterErrorNoFinally == "done"

\* catch (error) { console.error(...) } finally { await db.close() }
AfterError == "closing"

\* -------------------------------------------------------------------- state
VARIABLES
    prog,           \* which script runs
    batchSize,      \* its batchSize argument
    consumed,       \* the lines readline has delivered so far
    line,           \* the line being scanned
    i,              \* 1-based position of the next character of line
    pc,             \* where the script is
    objectBuffer, lineBuffer, openBraces, inQuotes, escapeNext,
    movieCount, batchCount, currentBatch,
    isFirstObject,  \* fixJsonFile
    out,            \* fixJsonFile: the chunks written to the output file
    txpc, txk,      \* sendBatchToSurrealDB: next database call, next movie
    txlog,          \* the database calls the current sendBatchToSurrealDB made
    pending,        \* records created inside the open transaction
    committed,      \* records the database holds
    sent,           \* every batch handed to the sink, with its outcome
    spans,          \* every span the scanner completed, with its decode outcome
    decoded,        \* the movies decoded so far, in order
    scanned,        \* number of characters scanned
    faults,         \* number of failed database calls
    createFailed,   \* a db.create of the current sendBatchToSurrealDB failed
    committedAtBegin, \* committed when the current sendBatchToSurrealDB began
    error,          \* the error the outer catch received
    completed,      \* the completion message was logged
    closeCount,     \* number of db.close() calls
    movieIn,        \* the decoded movie handed to the formatters
    dbRecord,       \* <<formatMovieForDB(movieIn)>> once it has run
    surqlObject,    \* <<formatMovieObject(movieIn)>> once it has run
    collections,    \* collections.ts: the imported list, its items numbered
    fetchI,         \* the window loop's i
    fetchBatch,     \* the window loop's batch
    inflight,       \* number of requests started and not yet settled
    failing,        \* the items whose callback returned null
    collectionData,
    fpc,            \* where collections.ts is
    events,         \* the windows started (W) and delays waited (D), in order
    requested,      \* the items a request was started for, in order
    written,        \* what was written to collection_data.json
    fetchFaults     \* number of failed fetches

scanVars == <<objectBuffer, lineBuffer, openBraces, inQuotes, escapeNext>>
inputVars == <<prog, batchSize, consumed, line>>
txVars == <<txpc, txk, txlog, pending, committed, faults, createFailed, committedAtBegin>>
fixVars == <<isFirstObject, out>>
endVars == <<error, completed, closeCount>>

formatVars == <<movieIn, dbRecord, surqlObject>>
fetchVars == <<collections, fetchI, fetchBatch, inflight, failing, collectionData,
               fpc, events, requested, written, fetchFaults>>
auxVars == <<formatVars, fetchVars>>

vars == <<prog, batchSize, consumed, line, i, pc, objectBuffer, lineBuffer,
          openBraces, inQuotes, escapeNext, movieCount, batchCount,
          currentBatch, isFirstObject, out, txpc, txk, txlog, pending,
          committed, sent, spans, decoded, scanned, faults, createFailed,
          committedAtBegin, error, completed, closeCount, auxVars>>

\* no formatter is running
FormatIdle ==
    /\ movieIn = <<>>
    /\ dbRecord = <<>>
    /\ surqlObject = <<>>

\* collections.ts is not running
FetchIdle ==
    /\ collections = <<>>
    /\ fetchI = 0
    /\ fetchBatch = <<>>
    /\ inflight = 0
    /\ failing = {}
    /\ collectionData = <<>>
    /\ fpc = "idle"
    /\ events = <<>>
    /\ requested = <<>>
    /\ written = <<>>
    /\ fetchFaults = 0

\* the ingestion scripts before their first line
PipelineStart ==
    /\ consumed = <<>>
    /\ line = <<>>
    /\ i = 1
    /\ objectBuffer = <<>>
    /\ lineBuffer = <<>>
    /\ openBraces = 0
    /\ inQuotes = FALSE
    /\ escapeNext = FALSE
    /\ movieCount = 0
    /\ batchCount = 0
    /\ currentBatch = <<>>
    /\ isFirstObject = TRUE
    /\ txpc = "idle"
    /\ txk = 0
    /\ txlog = <<>>
    /\ pending = <<>>
    /\ committed = <<>>
    /\ sent = <<>>
    /\ spans = <<>>
    /\ decoded = <<>>
    /\ scanned = 0
    /\ faults = 0
    /\ createFailed = FALSE
    /\ committedAtBegin = <<>>
    /\ error = "none"
    /\ completed = FALSE
    /\ closeCount = 0

Init ==
    /\ prog \in Programs
    /\ batchSize \in (IF prog = "fix" THEN {1} ELSE 1..MaxBatchSize)
    /\ pc = IF prog = "db" THEN "connect" ELSE "read"
    /\ out = IF prog = "fix" THEN << <<"[", "\n">> >> ELSE <<>>
    /\ PipelineStart
    /\ FormatIdle
    /\ FetchIdle

\* ------------------------------------------------------------------ actions
\* db.connect / db.signin / db.use
Connect ==
    /\ pc = "connect"
    /\ \E ok \in BOOLEAN :
        /\ pc' = IF ok THEN "read" ELSE AfterError
        /\ error' = IF ok THEN error ELSE "connect"
    /\ UNCHANGED <<auxVars, inputVars, i, scanVars, movieCount, batchCount, currentBatch,
                   fixVars, txVars, sent, spans, decoded, scanned, completed,
                   closeCount>>

\* for await (const line of rl): the next line arrives
ReadLine ==
    /\ pc = "read"
    /\ Len(consumed) < MaxLines
    /\ \E l \in Lines :
        /\ consumed' = Append(consumed, l)
        /\ line' = l
        /\ lineBuffer' = IF prog = "fix" THEN lineBuffer \o l ELSE lineBuffer
    /\ i' = 1
    /\ pc' = "scan"
    /\ UNCHANGED <<auxVars, prog, batchSize, objectBuffer, openBraces, inQuotes, escapeNext,
                   movieCount, batchCount, currentBatch, fixVars, txVars, sent,
                   spans, decoded, scanned, endVars>>

\* for await (const line of rl): the stream has ended
EndOfStream ==
    /\ pc = "read"
    /\ pc' = "flush"
    /\ UNCHANGED <<auxVars, inputVars, i, scanVars, movieCount, batchCount, currentBatch,
                   fixVars, txVars, sent, spans, decoded, scanned, endVars>>

\* the line is exhausted: the newline rule, then back to readline
EndOfLine ==
    /\ pc = "scan"
    /\ i > Len(line)
    /\ IF prog = "fix"
       THEN /\ lineBuffer' = IF lineBuffer # <<>> THEN Append(lineBuffer, "\n")
                             ELSE lineBuffer
            /\ UNCHANGED objectBuffer
       ELSE /\ objectBuffer' = IF objectBuffer # <<>> /\ openBraces > 0
                               THEN Append(objectBuffer, "\n") ELSE objectBuffer
            /\ UNCHANGED lineBuffer
    /\ pc' = "read"
    /\ UNCHANGED <<auxVars, inputVars, i, openBraces, inQuotes, escapeNext, movieCount,
                   batchCount, currentBatch, fixVars, txVars, sent, spans,
                   decoded, scanned, endVars>>

\* sendMoviesToSurrealDB: one character of the line
DbScan ==
    /\ pc = "scan"
    /\ prog = "db"
    /\ i <= Len(line)
    /\ LET ch == line[i]
           buf == Append(objectBuffer, ch)
           st == ScanChar([openBraces |-> openBraces, inQuotes |-> inQuotes,
                           escapeNext |-> escapeNext], ch)
           ok == JSONParseOk(buf)
           movie == Len(spans) + 1
           batch == Append(currentBatch, movie)
       IN
       /\ openBraces' = st.openBraces
       /\ inQuotes' = st.inQuotes
       /\ escapeNext' = st.escapeNext
       /\ scanned' = scanned + 1
       /\ IF ~st.closed THEN
              /\ objectBuffer' = buf
              /\ i' = i + 1
              /\ UNCHANGED <<pc, movieCount, currentBatch, sent, spans, decoded,
                             txVars>>
          ELSE IF ~ok THEN
              /\ spans' = Append(spans, [text |-> buf, ok |-> FALSE])
              /\ objectBuffer' = BufferAfterDecodeError(buf)
              /\ i' = i + 1
              /\ UNCHANGED <<pc, movieCount, currentBatch, sent, decoded, txVars>>
          ELSE
              /\ spans' = Append(spans, [text |-> buf, ok |-> TRUE])
              /\ currentBatch' = batch
              /\ movieCount' = movieCount + 1
              /\ decoded' = Append(decoded, movie)
              /\ IF BatchFull(batch, batchSize) THEN
                     /\ pc' = LoopSendPc
                     /\ sent' = Append(sent, [movies |-> batch, num |-> batchCount,
                                              res |-> "out"])
                     /\ txpc' = "begin"
                     /\ txk' = 0
                     /\ txlog' = <<>>
                     /\ createFailed' = FALSE
                     /\ committedAtBegin' = committed
                     /\ UNCHANGED <<objectBuffer, i, pending, committed, faults>>
                 ELSE
                     /\ objectBuffer' = <<>>
                     /\ i' = i + 1
                     /\ UNCHANGED <<pc, sent, txVars>>
    /\ UNCHANGED <<auxVars, inputVars, lineBuffer, batchCount, fixVars, endVars>>

\* convertMoviesToOptimizedSurql: one character of the line
SurqlScan ==
    /\ pc = "scan"
    /\ prog = "surql"
    /\ i <= Len(line)
    /\ LET ch == line[i]
           buf == Append(objectBuffer, ch)
           st == ScanChar([openBraces |-> openBraces, inQuotes |-> inQuotes,
                           escapeNext |-> escapeNext], ch)
           ok == JSONParseOk(buf)
           movie == Len(spans) + 1
           batch == Append(currentBatch, movie)
       IN
       /\ openBraces' = st.openBraces
       /\ inQuotes' = st.inQuotes
       /\ escapeNext' = st.escapeNext
       /\ scanned' = scanned + 1
       /\ i' = i + 1
       /\ IF ~st.closed THEN
              /\ objectBuffer' = buf
              /\ UNCHANGED <<movieCount, batchCount, currentBatch, sent, spans,
                             decoded>>
          ELSE IF ~ok THEN
              /\ spans' = Append(spans, [text |-> buf, ok |-> FALSE])
              /\ objectBuffer' = BufferAfterDecodeError(buf)
              /\ UNCHANGED <<movieCount, batchCount, currentBatch, sent, decoded>>
          ELSE
              /\ spans' = Append(spans, [text |-> buf, ok |-> TRUE])
              /\ movieCount' = movieCount + 1
              /\ decoded' = Append(decoded, movie)
              /\ objectBuffer' = <<>>
              /\ IF BatchFull(batch, batchSize) THEN
                     \* writeBatchToFile(writeStream, currentBatch, batchCount)
                     /\ sent' = Append(sent, [movies |-> batch, num |-> batchCount,
                                              label |-> BatchLabel(batchCount),
                                              res |-> "ok"])
                     /\ currentBatch' = <<>>
                     /\ batchCount' = batchCount + 1
                 ELSE
                     /\ currentBatch' = batch
                     /\ UNCHANGED <<batchCount, sent>>
    /\ UNCHANGED <<auxVars, inputVars, pc, lineBuffer, fixVars, txVars, endVars>>

\* fixJsonFile: one character of the line
FixScan ==
    /\ pc = "scan"
    /\ prog = "fix"
    /\ i <= Len(line)
    /\ LET ch == line[i]
           st == ScanChar([openBraces |-> openBraces, inQuotes |-> inQuotes,
                           escapeNext |-> escapeNext], ch)
       IN
       /\ openBraces' = st.openBraces
       /\ inQuotes' = st.inQuotes
       /\ escapeNext' = st.escapeNext
       /\ scanned' = scanned + 1
       /\ i' = i + 1
       /\ IF st.closed THEN
              /\ out' = (IF isFirstObject THEN out ELSE Append(out, <<",", "\n">>))
                        \o << Trim(lineBuffer) >>
              /\ isFirstObject' = FALSE
              /\ spans' = Append(spans, [text |-> Trim(lineBuffer), ok |-> TRUE])
              /\ lineBuffer' = <<>>
          ELSE
              UNCHANGED <<out, isFirstObject, spans, lineBuffer>>
    /\ UNCHANGED <<auxVars, inputVars, pc, objectBuffer, movieCount, batchCount,
                   currentBatch, txVars, sent, decoded, endVars>>

\* sendMoviesToSurrealDB after the read loop: the final batch, the report
DbFlush ==
    /\ pc = "flush"
    /\ prog = "db"
    /\ IF FlushNeeded(currentBatch) THEN
           /\ pc' = "finalsend"
           /\ sent' = Append(sent, [movies |-> currentBatch, num |-> batchCount,
                                    res |-> "out"])
           /\ txpc' = "begin"
           /\ txk' = 0
           /\ txlog' = <<>>
           /\ createFailed' = FALSE
           /\ committedAtBegin' = committed
           /\ UNCHANGED <<completed, pending, committed, faults>>
       ELSE
           /\ pc' = "closing"
           /\ completed' = TRUE
           /\ UNCHANGED <<sent, txVars>>
    /\ UNCHANGED <<auxVars, inputVars, i, scanVars, movieCount, batchCount, currentBatch,
                   fixVars, spans, decoded, scanned, error, closeCount>>

\* convertMoviesToOptimizedSurql after the read loop
SurqlFlush ==
    /\ pc = "flush"
    /\ prog = "surql"
    /\ IF FlushNeeded(currentBatch) THEN
           /\ sent' = Append(sent, [movies |-> currentBatch, num |-> batchCount,
                                    label |-> BatchLabel(batchCount),
                                    res |-> "ok"])
           /\ batchCount' = batchCount + 1
       ELSE
           UNCHANGED <<sent, batchCount>>
    /\ completed' = TRUE
    /\ pc' = "done"
    /\ UNCHANGED <<auxVars, inputVars, i, scanVars, movieCount, currentBatch, fixVars,
                   txVars, spans, decoded, scanned, error, closeCount>>

\* fixJsonFile after the read loop: the closing bracket
FixFlush ==
    /\ pc = "flush"
    /\ prog = "fix"
    /\ out' = Append(out, <<"\n", "]">>)
    /\ completed' = TRUE
    /\ pc' = "done"
    /\ UNCHANGED <<auxVars, inputVars, i, scanVars, movieCount, batchCount, currentBatch,
                   isFirstObject, txVars, sent, spans, decoded, scanned, error,
                   closeCount>>

\* ------------------------------------------------- sendBatchToSurrealDB
\* What sendMoviesToSurrealDB does when the awaited sendBatchToSurrealDB
\* returns (ok) or throws (~ok): inside the loop the inner try/catch, after the
\* loop the outer one.
SendEnds(ok) ==
    /\ sent' = [sent EXCEPT ![Len(sent)].res = IF ok THEN "ok" ELSE "fail"]
    /\ txpc' = "idle"
    /\ batchCount' = IF ok THEN batchCount + 1 ELSE batchCount
    /\ IF pc = "send" THEN
           /\ currentBatch' = BatchAfterSend(ok, currentBatch)
           /\ objectBuffer' = <<>>
           /\ i' = i + 1
           /\ pc' = "scan"
           /\ UNCHANGED <<error, completed>>
       ELSE
           /\ completed' = ok
           /\ error' = IF ok THEN error ELSE "sink"
           /\ pc' = IF ok THEN "closing" ELSE AfterError
           /\ UNCHANGED <<currentBatch, objectBuffer, i>>

callerVars == <<sent, batchCount, currentBatch, objectBuffer, i, pc, error, completed>>

InSend == pc \in {"send", "finalsend"}

\* the creation loop going on after a db.create that threw
AfterCreateIgnoringFailure(ok, k, n) ==
    IF k < n THEN "create" ELSE "commit"

\* the database call after db.create number k of n returned (ok) or threw
AfterCreate(ok, k, n) ==
    IF ~ok THEN "cancel" ELSE IF k < n THEN "create" ELSE "commit"

\* the database call after COMMIT TRANSACTION threw
AfterCommitFail == "cancel"

\* await db.query('BEGIN TRANSACTION;')  (outside the try)
TxBegin ==
    /\ InSend
    /\ txpc = "begin"
    /\ txlog' = Append(txlog, "BEGIN")
    /\ \E ok \in BOOLEAN :
        /\ ok \/ faults < MaxFaults
        /\ IF ok THEN
               /\ txpc' = IF Len(currentBatch) > 0 THEN "create" ELSE "commit"
               /\ txk' = 1
               /\ pending' = <<>>
               /\ UNCHANGED <<faults, callerVars>>
           ELSE
               /\ faults' = faults + 1
               /\ SendEnds(FALSE)
               /\ UNCHANGED <<txk, pending>>
    /\ UNCHANGED <<auxVars, inputVars, lineBuffer, openBraces, inQuotes, escapeNext,
                   movieCount, fixVars, committed, createFailed, committedAtBegin,
                   spans, decoded, scanned, closeCount>>

\* await db.create('movie', movie) for the next movie of the batch
TxCreate ==
    /\ InSend
    /\ txpc = "create"
    /\ txlog' = Append(txlog, "CREATE")
    /\ \E ok \in BOOLEAN :
        /\ ok \/ faults < MaxFaults
        /\ txpc' = AfterCreate(ok, txk, Len(currentBatch))
        /\ txk' = txk + 1
        /\ pending' = IF ok THEN Append(pending, currentBatch[txk]) ELSE pending
        /\ faults' = IF ok THEN faults ELSE faults + 1
        /\ createFailed' = (createFailed \/ ~ok)
    /\ UNCHANGED <<auxVars, inputVars, lineBuffer, openBraces, inQuotes, escapeNext,
                   movieCount, fixVars, committed, committedAtBegin, callerVars,
                   spans, decoded, scanned, closeCount>>

\* await db.query('COMMIT TRANSACTION;')
TxCommit ==
    /\ InSend
    /\ txpc = "commit"
    /\ txlog' = Append(txlog, "COMMIT")
    /\ \E ok \in BOOLEAN :
        /\ ok \/ faults < MaxFaults
        /\ IF ok THEN
               /\ committed' = committed \o pending
               /\ pending' = <<>>
               /\ SendEnds(TRUE)
               /\ UNCHANGED faults
           ELSE
               /\ txpc' = AfterCommitFail
               /\ faults' = faults + 1
               /\ UNCHANGED <<committed, pending, callerVars>>
    /\ UNCHANGED <<auxVars, inputVars, lineBuffer, openBraces, inQuotes, escapeNext,
                   movieCount, fixVars, txk, createFailed, committedAtBegin,
                   spans, decoded, scanned, closeCount>>

\* catch: await db.query('CANCEL TRANSACTION;'); throw error
TxCancel ==
    /\ InSend
    /\ txpc = "cancel"
    /\ txlog' = Append(txlog, "CANCEL")
    /\ \E ok \in BOOLEAN :
        /\ ok \/ faults < MaxFaults
        /\ pending' = IF ok THEN <<>> ELSE pending
        /\ faults' = IF ok THEN faults ELSE faults + 1
    /\ SendEnds(FALSE)
    /\ UNCHANGED <<auxVars, inputVars, lineBuffer, openBraces, inQuotes, escapeNext,
                   movieCount, fixVars, txk, committed, createFailed,
                   committedAtBegin, spans, decoded, scanned, closeCount>>

\* finally: await db.close()
Close ==
    /\ pc = "closing"
    /\ closeCount' = closeCount + 1
    /\ pc' = "done"
    /\ UNCHANGED <<auxVars, inputVars, i, scanVars, movieCount, batchCount, currentBatch,
                   fixVars, txVars, sent, spans, decoded, scanned, error,
                   completed>>

Next ==
    \/ Connect
    \/ ReadLine
    \/ EndOfStream
    \/ EndOfLine
    \/ DbScan
    \/ SurqlScan
    \/ FixScan
    \/ DbFlush
    \/ SurqlFlush
    \/ FixFlush
    \/ TxBegin
    \/ TxCreate
    \/ TxCommit
    \/ TxCancel
    \/ Close

Spec == Init /\ [][Next]_vars

\* ------------------------------------------------ the formatters alone
pipelineVars == <<inputVars, i, pc, scanVars, movieCount, batchCount, currentBatch,
                  fixVars, txVars, sent, spans, decoded, scanned, endVars>>

\* no ingestion script is running
PipelineIdle(p) ==
    /\ prog = p
    /\ batchSize = 1
    /\ pc = "done"
    /\ out = <<>>
    /\ PipelineStart

InitFormat ==
    /\ PipelineIdle("format")
    /\ movieIn \in Movies
    /\ dbRecord = <<>>
    /\ surqlObject = <<>>
    /\ FetchIdle

\* movies.map(formatMovieForDB)
FormatForDB ==
    /\ prog = "format"
    /\ dbRecord = <<>>
    /\ dbRecord' = <<formatMovieForDB(movieIn)>>
    /\ UNCHANGED <<pipelineVars, fetchVars, movieIn, surqlObject>>

\* writeStream.write(formatMovieObject(movie))
FormatObject ==
    /\ prog = "format"
    /\ surqlObject = <<>>
    /\ surqlObject' = <<formatMovieObject(movieIn)>>
    /\ UNCHANGED <<pipelineVars, fetchVars, movieIn, dbRecord>>

NextFormat ==
    \/ FormatForDB
    \/ FormatObject

SpecFormat == InitFormat /\ [][NextFormat]_vars

\* ------------------------------------------------------- collections.ts
InitFetch ==
    /\ PipelineIdle("collections")
    /\ FormatIdle
    /\ \E n \in FetchSizes : collections = [k \in 1..n |-> k]
    /\ fetchI = 0
    /\ fetchBatch = <<>>
    /\ inflight = 0
    /\ failing = {}
    /\ collectionData = <<>>
    /\ fpc = "outer"
    /\ events = <<>>
    /\ requested = <<>>
    /\ written = <<>>
    /\ fetchFaults = 0

\* for (const collection of collections) { const collectionData = []; ...
OuterFor ==
    /\ fpc = "outer"
    /\ IF Len(collections) = 0
       THEN /\ fpc' = "end"
            /\ UNCHANGED <<collectionData, fetchI>>
       ELSE /\ collectionData' = <<>>
            /\ fetchI' = 0
            /\ fpc' = "inner"
    /\ UNCHANGED <<pipelineVars, formatVars, collections, fetchBatch, inflight,
                   failing, events, requested, written, fetchFaults>>

\* for (let i = 0; i < collections.length; ...): slice the next window and
\* start one request per item (batch.map runs every callback up to its fetch)
InnerFor ==
    /\ fpc = "inner"
    /\ IF fetchI < Len(collections)
       THEN LET b == Slice(collections, fetchI, fetchI + FetchBatchSize) IN
            /\ fetchBatch' = b
            /\ inflight' = inflight + Len(b)
            /\ requested' = requested \o b
            /\ events' = Append(events, [kind |-> "W", before |-> inflight])
            /\ fpc' = "await"
       ELSE /\ fpc' = "write"
            /\ UNCHANGED <<fetchBatch, inflight, requested, events>>
    /\ UNCHANGED <<pipelineVars, formatVars, collections, fetchI, collectionData,
                   failing, written, fetchFaults>>

\* one request of the window settles: its callback returns the data, or
\* catches the error and returns null
Settle ==
    /\ fpc = "await"
    /\ inflight > 0
    /\ inflight' = inflight - 1
    /\ \/ UNCHANGED <<failing, fetchFaults>>
       \/ /\ fetchFaults < MaxFetchFaults
          /\ \E item \in Range(fetchBatch) \ failing : failing' = failing \cup {item}
          /\ fetchFaults' = fetchFaults + 1
    /\ UNCHANGED <<pipelineVars, formatVars, collections, fetchI, fetchBatch,
                   collectionData, fpc, events, requested, written>>

\* await Promise.all(batchPromises) returns; push the non-null results; then
\* the test for the delay
PromiseAll ==
    /\ fpc = "await"
    /\ inflight = 0
    /\ collectionData' = collectionData \o SelectSeq(fetchBatch, LAMBDA x : x \notin failing)
    /\ IF DelayNeeded(fetchI, Len(collections))
       THEN /\ fpc' = "delay"
            /\ UNCHANGED fetchI
       ELSE /\ fpc' = "inner"
            /\ fetchI' = fetchI + FetchBatchSize
    /\ UNCHANGED <<pipelineVars, formatVars, collections, fetchBatch, inflight,
                   failing, events, requested, written, fetchFaults>>

\* await new Promise(resolve => setTimeout(resolve, delay)); i += batchSize
Delay ==
    /\ fpc = "delay"
    /\ events' = Append(events, [kind |-> "D", before |-> inflight])
    /\ fetchI' = fetchI + FetchBatchSize
    /\ fpc' = "inner"
    /\ UNCHANGED <<pipelineVars, formatVars, collections, fetchBatch, inflight,
                   failing, collectionData, requested, written, fetchFaults>>

\* await fs.writeFile('collection_data.json', ...)
WriteFile ==
    /\ fpc = "write"
    /\ written' = Append(written, collectionData)
    /\ fpc' = "exit"
    /\ UNCHANGED <<pipelineVars, formatVars, collections, fetchI, fetchBatch,
                   inflight, failing, collectionData, events, requested, fetchFaults>>

\* process.exit(0)
Exit ==
    /\ fpc = "exit"
    /\ fpc' = AfterExit
    /\ UNCHANGED <<pipelineVars, formatVars, collections, fetchI, fetchBatch,
                   inflight, failing, collectionData, events, requested, written,
                   fetchFaults>>

NextFetch ==
    \/ OuterFor
    \/ InnerFor
    \/ Settle
    \/ PromiseAll
    \/ Delay
    \/ WriteFile
    \/ Exit

SpecFetch == InitFetch /\ [][NextFetch]_vars

TypeOK ==
    /\ pc \in {"connect", "read", "scan", "send", "flush", "finalsend", "closing", "done"}
    /\ txpc \in {"idle", "begin", "create", "commit", "cancel"}
    /\ movieCount = Len(decoded)

\* ------------------------------------------------------- input structure
\* the text of the input file: the lines read, each ended by a newline
RECURSIVE JoinLines(_)
JoinLines(ls) == IF ls = <<>> THEN <<>> ELSE Append(Head(ls), "\n") \o JoinLines(Tail(ls))

Text == JoinLines(consumed)

\* k: how many complete valid JSON objects, separated by white space only,
\* the text s holds from position p on; rest: where the first thing that is
\* not such an object begins (Len(s) + 1 when there is none)
RECURSIVE ObjectsFrom(_, _)
ObjectsFrom(s, p) ==
    LET q == SkipWs(s, p) IN
    IF q <= Len(s) /\ s[q] = "{" /\ ParseObject(s, q) > 0
    THEN LET r == ObjectsFrom(s, ParseObject(s, q)) IN
         [k |-> r.k + 1, rest |-> r.rest]
    ELSE [k |-> 0, rest |-> q]

\* s is complete valid objects followed by one object that the end of the
\* text cuts short
ValidThenTruncated(s) ==
    LET r == ObjectsFrom(s, 1) IN
    r.rest <= Len(s) /\ s[r.rest] = "{" /\ ParseObject(s, r.rest) = -1

\* s is exactly one valid object
SingleObject(s) ==
    LET r == ObjectsFrom(s, 1) IN r.k = 1 /\ r.rest = Len(s) + 1

CeilDiv(m, b) == (m + b - 1) \div b

SinkFailed == \E k \in 1..Len(sent) : sent[k].res = "fail"

\* ------------------------------------------------------------------- claims

\* C1: with every database call succeeding, a finished run of
\* sendMoviesToSurrealDB or convertMoviesToOptimizedSurql that decoded M
\* objects has dispatched ceil(M / batchSize) batches, each of batchSize
\* entities but the last, which has M mod batchSize (batchSize when that is 0);
\* M = 0 dispatches none.
C1_BatchSizing ==
    (pc = "done" /\ prog \in {"db", "surql"} /\ faults = 0 /\ error = "none") =>
        LET M == Cardinality({k \in 1..Len(spans) : spans[k].ok})
            n == Len(sent)
        IN /\ n = CeilDiv(M, batchSize)
           /\ \A k \in 1..n :
                Len(sent[k].movies) =
                    IF k < n \/ M % batchSize = 0 THEN batchSize ELSE M % batchSize

C1_Witness ==
    /\ pc = "done" /\ prog = "db" /\ faults = 0 /\ error = "none"
    /\ batchSize = 2 /\ Len(decoded) = 3 /\ Len(sent) = 2
    /\ Len(sent[2].movies) = 1

\* C2 (as claimed): every batch sendMoviesToSurrealDB passes to
\* sendBatchToSurrealDB holds at most batchSize entities, whatever the
\* outcomes of the commits.
C2_BatchAtMostBatchSize ==
    prog = "db" => \A k \in 1..Len(sent) : Len(sent[k].movies) <= batchSize

\* C3 (as claimed): once a commit of sendMoviesToSurrealDB has failed, no
\* further character is scanned, no further entity is decoded and no further
\* commit is attempted, and the run ends with the commit failure as its error.
C3_HaltOnCommitFailure ==
    [][ /\ (prog = "db" /\ SinkFailed) =>
              /\ scanned' = scanned
              /\ decoded' = decoded
              /\ Len(sent') = Len(sent)
        /\ (prog = "db" /\ SinkFailed' /\ pc' = "done") => error' = "sink"
      ]_vars

\* C4 (as claimed): no entity is passed to the sink in more than one commit
\* call of a run of sendMoviesToSurrealDB.
C4_NoRetry ==
    prog = "db" =>
        \A j, k \in 1..Len(sent) :
            j # k => Range(sent[j].movies) \cap Range(sent[k].movies) = {}

\* C5: when a db.create inside sendBatchToSurrealDB has failed, COMMIT
\* TRANSACTION is not issued by that call and the database holds exactly what
\* it held when the call began; when the call has ended, CANCEL TRANSACTION
\* was issued and the call ended by throwing.
C5_CommitAllOrNothing ==
    createFailed =>
        /\ "COMMIT" \notin Range(txlog)
        /\ committed = committedAtBegin
        /\ txpc = "idle" =>
            /\ "CANCEL" \in Range(txlog)
            /\ sent[Len(sent)].res = "fail"

C5_Witness ==
    /\ createFailed /\ txpc = "idle"
    /\ txlog = <<"BEGIN", "CREATE", "CREATE", "CANCEL">>
    /\ Len(committedAtBegin) = 2
    /\ committed = committedAtBegin

\* C6 (as claimed): a run whose input ends while the brace depth is not 0
\* ends with a structural error and not with the completion report.
C6_OpenAtEndIsStructuralError ==
    (pc = "done" /\ openBraces # 0) => (error = "structural" /\ ~completed)

\* C7 (as claimed): the brace depth is never negative in a state from which
\* scanning continues: a closing brace that would take it below 0 ends the run
\* with a structural error.
C7_DepthNeverNegative ==
    openBraces < 0 => (error = "structural" /\ pc \in {"closing", "done"})

\* C8: a finished run whose input is k complete valid objects followed by one
\* truncated object has recovered exactly k spans, decoded and counted all k,
\* and has passed each of the k entities to the sink; nothing comes from the
\* truncated tail.
C8_TruncatedTail ==
    (pc = "done" /\ prog \in {"db", "surql"} /\ error # "connect"
        /\ ValidThenTruncated(Text)) =>
        LET k == ObjectsFrom(Text, 1).k IN
        /\ Len(spans) = k
        /\ \A j \in 1..k : spans[j].ok
        /\ decoded = [j \in 1..k |-> j]
        /\ movieCount = k
        /\ \A m \in 1..k : \E j \in 1..Len(sent) : m \in Range(sent[j].movies)

C8_Witness ==
    /\ pc = "done" /\ prog = "db" /\ error # "connect"
    /\ ValidThenTruncated(Text)
    /\ ObjectsFrom(Text, 1).k = 3
    /\ movieCount = 3
    /\ openBraces > 0

\* C9: the character after a backslash never toggles inQuotes, changes the
\* depth or completes a span; a brace inside quoted text never changes the
\* depth; and a finished run whose input is exactly one valid object has
\* recovered exactly one span, which is that object.
C9_QuoteAndEscapeAware ==
    [][ /\ (scanned' = scanned + 1 /\ escapeNext) =>
              /\ inQuotes' = inQuotes
              /\ openBraces' = openBraces
              /\ spans' = spans
        /\ (scanned' = scanned + 1 /\ inQuotes /\ line[i] \in {"{", "}"}) =>
              /\ openBraces' = openBraces
              /\ spans' = spans
        /\ (pc' = "done" /\ error' # "connect" /\ SingleObject(Text')) =>
              /\ Len(spans') = 1
              /\ spans'[1].ok
              /\ Trim(spans'[1].text) = Trim(Text')
      ]_vars

C9_Witness ==
    /\ pc = "done"
    /\ consumed = <<ObjEsc>>
    /\ Len(spans) = 1
    /\ spans[1].text = ObjEsc

\* C10: a step emits a span if and only if it scans a character that takes
\* the brace depth from a value above 0 to 0 outside quoted text; a step emits
\* at most one span, and fixJsonFile writes an object exactly when it does.
C10_EmitIffDepthReturnsToZero ==
    [][ /\ (spans' # spans) <=>
              /\ scanned' = scanned + 1
              /\ openBraces > 0
              /\ openBraces' = 0
              /\ ~inQuotes'
        /\ spans' # spans => Len(spans') = Len(spans) + 1
        /\ (prog = "fix" /\ pc' # "done") =>
              ((out' # out) <=> (spans' # spans))
      ]_vars

C10_Witness ==
    /\ prog = "fix"
    /\ consumed = <<ObjTwo>>
    /\ Len(spans) = 2
    /\ openBraces = 0
    /\ pc = "scan"

\* C11: a finished run whose input is valid objects, then one object whose
\* braces balance outside quoted text but which is not JSON, then valid
\* objects, has skipped exactly that one span, has decoded every valid object
\* before and after it and put each into a dispatched batch, and has scanned
\* the input to its end.
RECURSIVE BalancedEnd(_, _, _, _, _)
BalancedEnd(s, p, depth, inQ, esc) ==
    IF p > Len(s) THEN 0
    ELSE IF esc THEN BalancedEnd(s, p + 1, depth, inQ, FALSE)
    ELSE IF s[p] = "\\" THEN BalancedEnd(s, p + 1, depth, inQ, TRUE)
    ELSE IF s[p] = "\"" THEN BalancedEnd(s, p + 1, depth, ~inQ, FALSE)
    ELSE IF ~inQ /\ s[p] = "{" THEN BalancedEnd(s, p + 1, depth + 1, inQ, FALSE)
    ELSE IF ~inQ /\ s[p] = "}" THEN
        IF depth = 1 THEN p + 1 ELSE BalancedEnd(s, p + 1, depth - 1, inQ, FALSE)
    ELSE BalancedEnd(s, p + 1, depth, inQ, FALSE)

\* [before, after]: the numbers of valid objects around the one malformed
\* object of s; before = 0 when s is not of that shape
AroundMalformed(s) ==
    LET a == ObjectsFrom(s, 1)
        e == IF a.rest <= Len(s) /\ s[a.rest] = "{"
             THEN BalancedEnd(s, a.rest, 0, FALSE, FALSE) ELSE 0
        b == IF e > 0 THEN ObjectsFrom(s, e) ELSE [k |-> 0, rest |-> 0]
    IN IF a.k >= 1 /\ e > 0 /\ ~JSONParseOk(SubSeq(s, a.rest, e - 1))
          /\ b.k >= 1 /\ b.rest = Len(s) + 1
       THEN [before |-> a.k, after |-> b.k]
       ELSE [before |-> 0, after |-> 0]

C11_MalformedObjectIsolated ==
    (pc = "done" /\ prog \in {"db", "surql"} /\ error # "connect"
        /\ AroundMalformed(Text).before > 0) =>
        LET m == AroundMalformed(Text)
            n == m.before + m.after + 1
        IN
        /\ Len(spans) = n
        /\ \A j \in 1..n : spans[j].ok <=> (j # m.before + 1)
        /\ decoded = [j \in 1..(n - 1) |-> IF j <= m.before THEN j ELSE j + 1]
        /\ movieCount = n - 1
        /\ \A j \in 1..Len(decoded) :
              \E k \in 1..Len(sent) : decoded[j] \in Range(sent[k].movies)
        /\ scanned = Len(Text) - Len(consumed)

C11_Witness ==
    /\ pc = "done" /\ prog = "db"
    /\ consumed = <<ObjPlain, ObjBad, ObjPlain>>
    /\ decoded = <<1, 3>>
    /\ ~spans[2].ok

\* C12 (as claimed): in a finished run the dispatched batches, concatenated in
\* dispatch order, are the decoded objects in input order: nothing dropped,
\* duplicated or reordered.
RECURSIVE Flatten(_)
Flatten(batches) ==
    IF batches = <<>> THEN <<>> ELSE Head(batches).movies \o Flatten(Tail(batches))

C12_OrderPreserved ==
    (pc = "done" /\ prog \in {"db", "surql"} /\ error # "connect") =>
        Flatten(sent) = decoded

\* C13: at most one commit of sendMoviesToSurrealDB is outstanding, and a step
\* taken while one is outstanding scans no character, decodes nothing, adds
\* nothing to the open batch and starts no other commit.
Outstanding == {k \in 1..Len(sent) : sent[k].res = "out"}

C13_OneCommitInFlight ==
    [][ prog = "db" =>
          /\ Cardinality(Outstanding') <= 1
          /\ Outstanding # {} =>
                /\ scanned' = scanned
                /\ decoded' = decoded
                /\ currentBatch' \in {currentBatch, <<>>}
                /\ Len(sent') = Len(sent)
      ]_vars

C13_Witness ==
    /\ prog = "db" /\ pc = "send" /\ txpc = "commit"
    /\ Outstanding = {Len(sent)}
    /\ i < Len(line)

\* what the completion message of sendMoviesToSurrealDB reports; movieCount
\* and batchCount no longer change once it is logged
Report == [logged |-> completed, movies |-> movieCount, batches |-> batchCount]

\* C14 (as claimed): every finished run of sendMoviesToSurrealDB reports the
\* number of entities decoded, the number of spans skipped for a decode
\* failure and the number of batches committed, each the true count.
C14_ReportsExactCounts ==
    (pc = "done" /\ prog = "db" /\ error # "connect") =>
        /\ Report.logged
        /\ Report.movies = Len(decoded)
        /\ Report.batches = Cardinality({k \in 1..Len(sent) : sent[k].res = "ok"})
        /\ "skipped" \in DOMAIN Report
        /\ Report.skipped = Cardinality({k \in 1..Len(spans) : ~spans[k].ok})

\* the texts of the valid objects s holds from position p on
RECURSIVE ObjectTexts(_, _)
ObjectTexts(s, p) ==
    LET q == SkipWs(s, p) IN
    IF q <= Len(s) /\ s[q] = "{" /\ ParseObject(s, q) > 0
    THEN <<SubSeq(s, q, ParseObject(s, q) - 1)>> \o ObjectTexts(s, ParseObject(s, q))
    ELSE <<>>

\* the chunks of a JSON array file holding the objects objs
RECURSIVE ArrayBody(_)
ArrayBody(objs) ==
    IF Len(objs) <= 1 THEN objs
    ELSE <<Head(objs), <<",", "\n">> >> \o ArrayBody(Tail(objs))

\* C15 (as claimed): for an input of N >= 1 valid objects separated by white
\* space, newlines or nothing, fixJsonFile writes "[", the N objects each once
\* and in input order with one comma between consecutive ones, and "]".
C15_FixWritesArray ==
    (pc = "done" /\ prog = "fix"
        /\ ObjectsFrom(Text, 1).k >= 1
        /\ ObjectsFrom(Text, 1).rest = Len(Text) + 1) =>
        out = << <<"[", "\n">> >> \o ArrayBody(ObjectTexts(Text, 1))
                \o << <<"\n", "]">> >>

\* the records the formatters have produced for movieIn
Formatted == Range(dbRecord) \cup Range(surqlObject)

NumericFields == {"budget", "revenue", "runtime", "vote_average"}

\* C16: an optional numeric field that is absent or zero is output as 0 (and
\* any other value unchanged); a genres list that is absent or empty is output
\* as the one-element list holding genre:0, any other list as the references
\* to its genres in order; the output genre list is never empty.
C16_DefaultSubstitution ==
    prog = "format" =>
        \A r \in Formatted :
            /\ \A f \in NumericFields :
                   r[f] = IF movieIn[f] \in {<<>>, <<0>>} THEN 0 ELSE movieIn[f][1]
            /\ movieIn.genres \in {<<>>, << <<>> >>} => r.genre = <<Ref("genre", "0")>>
            /\ movieIn.genres \notin {<<>>, << <<>> >>} =>
                   /\ Len(r.genre) = Len(movieIn.genres[1])
                   /\ \A k \in 1..Len(r.genre) :
                          r.genre[k] = Ref("genre", ToString(movieIn.genres[1][k]))
            /\ r.genre # <<>>

C16_Witness ==
    /\ prog = "format"
    /\ movieIn.budget = <<>> /\ movieIn.revenue = <<0>> /\ movieIn.runtime = <<7>>
    /\ movieIn.genres = << <<>> >>
    /\ dbRecord # <<>> /\ surqlObject # <<>>
    /\ dbRecord[1].budget = 0 /\ dbRecord[1].runtime = 7
    /\ dbRecord[1].genre = <<Ref("genre", "0")>>
    /\ surqlObject[1].genre = <<Ref("genre", "0")>>

\* C17 as stated: language and collection are normalized to kind:id
\* references and default, when the source field is absent, to language:0
\* and collection:0.
C17_SentinelDefault ==
    prog = "format" =>
        \A r \in Formatted :
            /\ r.language = IF movieIn.original_language = <<>>
                            THEN Ref("language", "0")
                            ELSE Ref("language", movieIn.original_language[1])
            /\ r.collection = IF movieIn.belongs_to_collection = <<>>
                              THEN <<Ref("collection", "0")>>
                              ELSE <<Ref("collection", ToString(movieIn.belongs_to_collection[1]))>>

\* C17 amended: a present language code and a present collection are
\* normalized to language:<code> and collection:<id>; an absent (or empty)
\* original_language defaults to language:en, and an absent
\* belongs_to_collection is output as null (NULL in the statement emitter),
\* not as a reference.
C17_SingleReference ==
    prog = "format" =>
        \A r \in Formatted :
            /\ r.language = IF movieIn.original_language \in {<<>>, <<"">>}
                            THEN Ref("language", "en")
                            ELSE Ref("language", movieIn.original_language[1])
            /\ r.collection = IF movieIn.belongs_to_collection = <<>>
                              THEN <<>>
                              ELSE <<Ref("collection", ToString(movieIn.belongs_to_collection[1]))>>

C17_Witness ==
    /\ prog = "format"
    /\ movieIn.original_language = <<>> /\ movieIn.belongs_to_collection = <<>>
    /\ dbRecord # <<>> /\ surqlObject # <<>>
    /\ dbRecord[1].language = Ref("language", "en") /\ dbRecord[1].collection = <<>>
    /\ surqlObject[1].language = Ref("language", "en") /\ surqlObject[1].collection = <<>>

\* the windows started so far
Windows == SelectSeq(events, LAMBDA e : e.kind = "W")

\* C18: collections.ts never has more than 40 requests outstanding; a window
\* starts only when no request of the window before is outstanding; windows
\* and delays alternate, starting with a window, so one delay lies between two
\* consecutive windows, and the run ends on a window, not on a delay.
C18_WindowedFetch ==
    prog = "collections" =>
        /\ inflight <= FetchBatchSize
        /\ \A k \in 1..Len(events) : events[k].kind = "W" => events[k].before = 0
        /\ events # <<>> => events[1].kind = "W"
        /\ \A k \in 1..(Len(events) - 1) : events[k].kind # events[k + 1].kind
        /\ fpc \in {"write", "exit", "end"} /\ events # <<>> =>
               events[Len(events)].kind = "W"
        /\ fpc = "end" =>
               Len(Windows) = CeilDiv(Len(collections), FetchBatchSize)

C18_Witness ==
    /\ prog = "collections"
    /\ Len(collections) = 81
    /\ fpc = "end"
    /\ Len(events) = 5
    /\ events[2].kind = "D" /\ events[4].kind = "D"
    /\ Len(requested) = 81
    /\ Len(collectionData) = 80

\* C19: the sink is never handed an empty batch; the step that leaves the end
\* of the read loop dispatches the open batch once when it is non-empty and
\* dispatches nothing when it is empty; nothing is dispatched after it.
C19_FinalBatch ==
    [][ (prog = "db" \/ prog = "surql") =>
          /\ \A k \in 1..Len(sent') : sent'[k].movies # <<>>
          /\ (pc = "flush" /\ pc' # "flush") =>
                (IF currentBatch # <<>>
                 THEN /\ Len(sent') = Len(sent) + 1
                      /\ sent'[Len(sent')].movies = currentBatch
                 ELSE sent' = sent)
          /\ pc \in {"finalsend", "closing", "done"} => Len(sent') = Len(sent)
      ]_vars

C19_Witness ==
    /\ pc = "done" /\ prog = "surql" /\ batchSize = 2
    /\ Len(decoded) = 3 /\ Len(sent) = 2
    /\ sent[2].movies = <<3>>

\* C20: in convertMoviesToOptimizedSurql the k-th batch written carries batch
\* number k - 1 and the comment "Batch k", and at the end batchCount is the
\* number of batches written.
C20_BatchIndex ==
    prog = "surql" =>
        /\ \A k \in 1..Len(sent) : sent[k].num = k - 1 /\ sent[k].label = k
        /\ pc = "done" => batchCount = Len(sent)

C20_Witness ==
    /\ prog = "surql" /\ pc = "done"
    /\ Len(sent) = 3
    /\ sent[3].label = 3
    /\ batchCount = 3

\* ------------------------------------------------------------------- C21
\* the step completed a span whose decoding failed
DecodeFailedStep ==
    /\ Len(spans') = Len(spans) + 1
    /\ ~spans'[Len(spans')].ok

\* C21: in sendMoviesToSurrealDB and convertMoviesToOptimizedSurql the step
\* on which JSON.parse of a completed span throws leaves the open batch,
\* movieCount, batchCount and the decoded movies unchanged, hands nothing to
\* the sink and makes no database call, empties objectBuffer, and goes on
\* scanning at the next character.
C21_DecodeFailureOnlyResetsBuffer ==
    [][ ((prog = "db" \/ prog = "surql") /\ DecodeFailedStep) =>
          /\ currentBatch' = currentBatch
          /\ movieCount' = movieCount
          /\ batchCount' = batchCount
          /\ decoded' = decoded
          /\ sent' = sent
          /\ UNCHANGED txVars
          /\ objectBuffer' = <<>>
          /\ pc = "scan" /\ pc' = "scan"
          /\ i' = i + 1
          /\ line' = line
      ]_vars

C21_Witness ==
    /\ prog = "db" /\ batchSize = 2
    /\ consumed = <<ObjPlain, ObjBad>>
    /\ pc = "scan" /\ i = Len(ObjBad) + 1
    /\ Len(spans) = 2 /\ spans[1].ok /\ ~spans[2].ok
    /\ currentBatch = <<1>> /\ movieCount = 1 /\ batchCount = 0
    /\ objectBuffer = <<>>
    /\ sent = <<>>

\* ------------------------------------------------------------------- C22
\* sendMoviesToSurrealDB is between two character steps (or past the last)
BetweenCharacters(p) == p \in {"scan", "read", "flush"}

\* C22: in a run of sendMoviesToSurrealDB in which no sendBatchToSurrealDB
\* call has failed, every state between two character steps has
\* movieCount = batchCount * batchSize + the length of the open batch, with
\* the open batch shorter than batchSize; and on every step that counts a
\* batch (the progress message follows it) movieCount is the number of movies
\* the database holds.
C22_CounterInvariant ==
    [][ (prog = "db" /\ ~SinkFailed') =>
          /\ BetweenCharacters(pc') =>
                /\ movieCount' = batchCount' * batchSize' + Len(currentBatch')
                /\ Len(currentBatch') < batchSize'
          /\ batchCount' = batchCount + 1 => movieCount' = Len(committed')
      ]_vars

C22_Witness ==
    /\ prog = "db" /\ batchSize = 2
    /\ ~SinkFailed
    /\ pc = "scan"
    /\ batchCount = 1 /\ movieCount = 3
    /\ Len(currentBatch) = 1
    /\ Len(committed) = 2

\* ------------------------------------------------------------------- C23
\* the calls of sendBatchToSurrealDB that returned normally and passed movie m
CommittedBatchesOf(m) ==
    {k \in 1..Len(sent) : sent[k].res = "ok" /\ m \in Range(sent[k].movies)}

\* number of times movie m occurs in the sequence s
RECURSIVE Occurrences(_, _)
Occurrences(s, m) ==
    IF s = <<>> THEN 0
    ELSE (IF Head(s) = m THEN 1 ELSE 0) + Occurrences(Tail(s), m)

\* C23: when sendMoviesToSurrealDB has logged "Completed!", every movie
\* counted in movieCount was passed in exactly one sendBatchToSurrealDB call
\* that returned normally and is held once by the database, also when earlier
\* calls failed; and the last call of the run did not fail.
C23_CompletionImpliesDelivery ==
    (prog = "db" /\ completed) =>
        /\ movieCount = Len(decoded)
        /\ \A m \in Range(decoded) :
               /\ Cardinality(CommittedBatchesOf(m)) = 1
               /\ Occurrences(committed, m) = 1
        /\ sent # <<>> => sent[Len(sent)].res = "ok"

C23_Witness ==
    /\ prog = "db" /\ completed
    /\ SinkFailed
    /\ movieCount = 3
    /\ Len(committed) = 3
    /\ sent[Len(sent)].res = "ok"

\* ------------------------------------------------------------------- C24
IsPrefix(s, t) == Len(s) <= Len(t) /\ s = SubSeq(t, 1, Len(s))

\* C24: collections.ts starts at most one request per list entry, in list
\* order, and writes collection_data.json at most once; when a run over a
\* non-empty list has ended, every entry was requested exactly once and the
\* file was written once, holding in list order the results of exactly the
\* entries whose fetch did not fail.
C24_EachReferenceRequestedOnce ==
    prog = "collections" =>
        /\ IsPrefix(requested, collections)
        /\ Len(written) <= 1
        /\ (fpc = "end" /\ Len(collections) > 0) =>
               /\ requested = collections
               /\ written = <<SelectSeq(collections, LAMBDA x : x \notin failing)>>
               /\ Len(written[1]) = Len(collections) - Cardinality(failing)

C24_Witness ==
    /\ prog = "collections" /\ fpc = "end"
    /\ Len(collections) = 81
    /\ failing = {5}
    /\ requested = collections
    /\ Len(written) = 1 /\ Len(written[1]) = 80
    /\ written[1][5] = 6 /\ written[1][80] = 81

\* ------------------------------------------------------------------- C25
\* Every awaited call returns and readline delivers its next line or the end
\* of the input: a step that can be taken is eventually taken.
\* The two scanner steps are enabled exactly when a character of the line is
\* left; their weak fairness is written out with that guard.
ScanReady(p) == pc = "scan" /\ prog = p /\ i <= Len(line)

OtherSteps ==
    \/ Connect
    \/ ReadLine
    \/ EndOfStream
    \/ EndOfLine
    \/ FixScan
    \/ DbFlush
    \/ SurqlFlush
    \/ FixFlush
    \/ TxBegin
    \/ TxCreate
    \/ TxCommit
    \/ TxCancel
    \/ Close

SpecLive ==
    /\ Init /\ [][Next]_vars
    /\ WF_vars(OtherSteps)
    /\ ([]<>(~ScanReady("db")) \/ []<><<DbScan>>_vars)
    /\ ([]<>(~ScanReady("surql")) \/ []<><<SurqlScan>>_vars)

\* C25: a run of sendMoviesToSurrealDB eventually ends; db.close() is called
\* at most once, exactly once when the run has ended, with or without an
\* error; and after db.close() nothing more is handed to sendBatchToSurrealDB
\* and no database call is made.
C25_TerminatesAndClosesOnce ==
    /\ <>(prog = "db" => pc = "done")
    /\ [](prog = "db" => (closeCount <= 1 /\ (pc = "done" => closeCount = 1)))
    /\ [][ (prog = "db" /\ closeCount > 0) => (sent' = sent /\ UNCHANGED txVars) ]_vars

C25_Witness ==
    /\ prog = "db" /\ pc = "done"
    /\ closeCount = 1
    /\ error = "sink" /\ ~completed
    /\ Len(sent) = 2 /\ sent[1].res = "ok" /\ sent[2].res = "fail"

====
